---- MODULE Spec2Model ----
(***************************************************************************)
(* Model of the TonTon plugin's sync engine (decky-plugin-tonton/main.py): *)
(* the process-wide sync_state record, the sync_game coroutine stepped at  *)
(* the statements that change state or block, the rsync subprocesses it    *)
(* drives, and the get_sync_status / save_settings coroutines.             *)
(*                                                                         *)
(* Python values: a str is a tuple of string chunks (a line of rsync       *)
(* output is a tuple of its characters, so that strip, startswith and      *)
(* split are computed as the code computes them); the empty str is <<>>;   *)
(* None is the value None below; a dict is a record.                       *)
(*                                                                         *)
(* Scheduling: every Plugin method is an `async def`; the host runs them   *)
(* as coroutines of one event loop.  A coroutine keeps the loop until it   *)
(* awaits or returns.  `active` is the call holding the loop (0: none).    *)
(* A call's pc: idle, pending (issued, waiting for the loop), the          *)
(* statements of sync_game, done or raised, delivered (record dropped).    *)
(***************************************************************************)
EXTENDS Integers, Sequences, FiniteSets, TLC

\* ------------------------------------------------------------------ bounds
MaxCalls == 2     \* sync_game calls issued in one behaviour
MaxLines == 2     \* most output lines one content rsync writes

Calls == 1..MaxCalls

\* ------------------------------------------------------------ input values
None == <<"<None>">>

Games == {<<"GameA">>, <<"GameB">>}
AppIds == {<<"730">>, <<"unknown">>, <<>>}
SettingValues == {<<>>, <<"deck">>}
StderrTexts == {<<>>, <<"rsync: connection refused">>}
ExitCodes == {0, 23}

\* Lines rsync --itemize-changes can write, as read from process.stdout
\* (text mode: each ends with a newline).
FileLines ==
    { <<">", "f", "+", " ", "a", "\n">>,
      <<"<", "f", "+", " ", "a", "\n">>,
      <<"c", "f", "+", " ", "a", " ", "c", "\n">>,
      <<" ", ">", "f", "+", " ", "a", "\n">> }
DirLines ==
    { <<"c", "d", "+", " ", "d", "/", "\n">>,
      <<">", "d", "+", " ", "d", "/", "\n">> }
OtherLines ==
    { <<"\n">>,
      <<" ", "\n">>,
      <<">", "f", "+", "\n">>,
      <<"c", "d", "+", "\n">>,
      <<"s", "e", "n", "t", " ", "1", "\n">> }
OutputLines == FileLines \cup DirLines \cup OtherLines

\* ------------------------------------------------------------------- state
VARIABLES
    sync_state,     \* the global dict of main.py:22-30
    settings,       \* the persisted settings read by sync_game
    pc,             \* per call: where the sync_game coroutine stands
    req,            \* per call: its arguments (game_name, app_id)
    files_synced,   \* per call: the local counter of main.py:274
    current_file,   \* per call: the local of main.py:275
    process,        \* per call: the content rsync started by Popen
    acf,            \* per call: the metadata rsync run by subprocess.run
    result,         \* per call: what sync_game returned (or raised)
    active,         \* the call that holds the event loop, 0 if none
    arrived_busy,   \* per call: was sync_state.syncing true when it was issued
    seen,           \* per call: tally of the output lines read so far
    status          \* the dict a get_sync_status that has just run returned

vars == <<sync_state, settings, pc, req, files_synced, current_file, process,
          acf, result, active, arrived_busy, seen, status>>

\* ------------------------------------------------------- string operations
Whitespace == {" ", "\n", "\t", "\r"}

RECURSIVE LStrip(_)
LStrip(s) ==
    IF s # <<>> /\ Head(s) \in Whitespace THEN LStrip(Tail(s)) ELSE s

RECURSIVE RStrip(_)
RStrip(s) ==
    IF s # <<>> /\ s[Len(s)] \in Whitespace
    THEN RStrip(SubSeq(s, 1, Len(s) - 1))
    ELSE s

\* str.strip()
Strip(s) == RStrip(LStrip(s))

\* str.startswith(prefix)
StartsWith(s, prefix) ==
    /\ Len(s) >= Len(prefix)
    /\ SubSeq(s, 1, Len(prefix)) = prefix

\* As if str.partition(' ') were used: always a head and a rest.
Split1_Partition(s) ==
    LET hits == {i \in 1..Len(s) : s[i] = " "}
    IN  IF hits = {}
        THEN <<s, <<>>>>
        ELSE LET i == CHOOSE j \in hits : \A k \in hits : j <= k
             IN  <<SubSeq(s, 1, i - 1), SubSeq(s, i + 1, Len(s))>>

\* As if str.rsplit(' ', 1) were used: the split is at the last space.
Split1_Last(s) ==
    LET hits == {i \in 1..Len(s) : s[i] = " "}
    IN  IF hits = {}
        THEN <<s>>
        ELSE LET i == CHOOSE j \in hits : \A k \in hits : j >= k
             IN  <<SubSeq(s, 1, i - 1), SubSeq(s, i + 1, Len(s))>>

\* str.split(' ', 1): at most one split, at the first space
Split1(s) ==
    LET hits == {i \in 1..Len(s) : s[i] = " "}
    IN  IF hits = {}
        THEN <<s>>
        ELSE LET i == CHOOSE j \in hits : \A k \in hits : j <= k
             IN  <<SubSeq(s, 1, i - 1), SubSeq(s, i + 1, Len(s))>>

Digits == <<"0", "1", "2", "3", "4", "5", "6", "7", "8", "9">>

\* str(n) inside an f-string
RECURSIVE Str(_)
Str(n) ==
    IF n < 10
    THEN <<Digits[n + 1]>>
    ELSE Str(n \div 10) \o <<Digits[(n % 10) + 1]>>

\* ------------------------------------------------------------ the parser
\* As if the "cf" code were forgotten.
IsFileLine_NoCf(line) ==
    \/ StartsWith(line, <<">", "f">>)
    \/ StartsWith(line, <<"<", "f">>)

\* main.py:286
IsFileLine(line) ==
    \/ StartsWith(line, <<">", "f">>)
    \/ StartsWith(line, <<"<", "f">>)
    \/ StartsWith(line, <<"c", "f">>)

IsDirLine(line) ==
    \/ StartsWith(line, <<">", "d">>)
    \/ StartsWith(line, <<"c", "d">>)

\* Is the stripped line counted as a transferred file (main.py:286-289)?
CountsAsFile(line) ==
    /\ line # <<>>
    /\ IsFileLine(line)
    /\ Len(Split1(line)) >= 2

\* ------------------------------------------------- the lines, as specified
\* The itemize format, stated without the parser's operations: a line
\* (surrounding whitespace removed) carries a two-character code, then the
\* rest of its first token, a space, and the path.
FileCodes == {<<">", "f">>, <<"<", "f">>, <<"c", "f">>}
DirCodes == {<<">", "d">>, <<"c", "d">>}

HasCode(line, codes) == Len(line) >= 2 /\ <<line[1], line[2]>> \in codes

HasSeparator(line) == \E i \in 1..Len(line) : line[i] = " "

\* A FileTransferred line: file code and a separator after the first token.
IsFileTransferred(raw) ==
    HasCode(Strip(raw), FileCodes) /\ HasSeparator(Strip(raw))

\* A malformed line: file or directory code, no separator.
IsMalformed(raw) ==
    HasCode(Strip(raw), FileCodes \cup DirCodes) /\ ~HasSeparator(Strip(raw))

\* The remainder of a line after its first token and the space that ends it.
RECURSIVE PathAfterToken(_)
PathAfterToken(line) ==
    IF line = <<>> THEN <<>>
    ELSE IF Head(line) = " " THEN Tail(line)
    ELSE PathAfterToken(Tail(line))

\* The tally of the lines a call has read: how many were FileTransferred
\* lines, and how many began with a file code at all.
NoLines == [files |-> 0, prefix |-> 0]

Tally(t, raw) ==
    [files |-> t.files + (IF IsFileTransferred(raw) THEN 1 ELSE 0),
     prefix |-> t.prefix + (IF HasCode(Strip(raw), FileCodes) THEN 1 ELSE 0)]

\* ---------------------------------------------------------------- scheduling
\* As if the output loop awaited each line.
SuspensionPoints_AwaitLines == {"read"}

\* The positions of sync_game at which the coroutine awaits, handing the
\* event loop to other coroutines: sync_game contains no await (the output
\* loop, process.wait() and subprocess.run are blocking calls).
SuspensionPoints == {}

\* No coroutine holds the event loop.
LoopFree == IF active = 0 THEN TRUE ELSE pc[active] \in SuspensionPoints

\* Positions between the state reset (main.py:241-245) and the return.
InFlight == {"popen", "read", "wait", "check", "acf", "acf_run", "finish"}

Started == {"begin", "makedirs", "reset"} \cup InFlight

\* Call c may execute its next statement.
MayRun(c) == IF active = c THEN TRUE ELSE LoopFree /\ pc[c] \in Started

\* ------------------------------------------------------------------- values
NoResult == [none |-> TRUE]
NoRequest == [game_name |-> <<>>, app_id |-> <<>>]
NoProcess == [state |-> "none", returncode |-> 0, stderr |-> <<>>, todo |-> 0]
NoAcf == [runs |-> 0, outcome |-> "none", warned |-> FALSE]
NoStatus == [none |-> TRUE]

Init ==
    /\ sync_state = [syncing |-> FALSE, current_game |-> None,
                     current_file |-> None, files_done |-> 0, files_total |-> 0,
                     bytes_done |-> 0, bytes_total |-> 0]
    /\ settings \in [pc_ip : SettingValues, pc_user : SettingValues]
    /\ pc = [c \in Calls |-> "idle"]
    /\ req = [c \in Calls |-> NoRequest]
    /\ files_synced = [c \in Calls |-> 0]
    /\ current_file = [c \in Calls |-> None]
    /\ process = [c \in Calls |-> NoProcess]
    /\ acf = [c \in Calls |-> NoAcf]
    /\ result = [c \in Calls |-> NoResult]
    /\ active = 0
    /\ arrived_busy = [c \in Calls |-> FALSE]
    /\ seen = [c \in Calls |-> NoLines]
    /\ status = NoStatus

\* ------------------------------------------------------------ the frontend
\* The frontend calls sync_game(game_name, app_id): the call waits for the
\* event loop.  Calls are issued in the order of their numbers.
CallSyncGame(c, game_name, app_id) ==
    /\ pc[c] = "idle"
    /\ \A d \in Calls : d < c => pc[d] # "idle"
    /\ pc' = [pc EXCEPT ![c] = "pending"]
    /\ req' = [req EXCEPT ![c] = [game_name |-> game_name, app_id |-> app_id]]
    /\ arrived_busy' = [arrived_busy EXCEPT ![c] = sync_state.syncing]
    /\ UNCHANGED seen
    /\ UNCHANGED <<sync_state, settings, files_synced, current_file, process,
                   acf, result, active>>
    /\ status' = NoStatus

\* ------------------------------------------------------------ save_settings
save_settings(pc_ip, pc_user) ==
    /\ LoopFree
    /\ settings' = [pc_ip |-> pc_ip, pc_user |-> pc_user]
    /\ UNCHANGED <<sync_state, pc, req, files_synced, current_file, process,
                   acf, result, active, arrived_busy, seen>>
    /\ status' = NoStatus

\* ---------------------------------------------------------- get_sync_status
\* As if files_done were filled from the wrong key.
Snapshot_WrongKey(st) ==
    [syncing |-> st.syncing, current_game |-> st.current_game,
     current_file |-> st.current_file, files_done |-> st.files_total,
     files_total |-> st.files_total]

\* main.py:352-358
Snapshot(st) ==
    [syncing |-> st.syncing, current_game |-> st.current_game,
     current_file |-> st.current_file, files_done |-> st.files_done,
     files_total |-> st.files_total]

get_sync_status ==
    /\ LoopFree
    /\ status' = Snapshot(sync_state)
    /\ UNCHANGED <<sync_state, settings, pc, req, files_synced, current_file,
                   process, acf, result, active, arrived_busy, seen>>

\* ---------------------------------------------------------------- sync_game
\* return <dict>: the coroutine ends, its frame is dropped, the loop is free.
Return(c, dict) ==
    /\ pc' = [pc EXCEPT ![c] = "done"]
    /\ result' = [result EXCEPT ![c] = dict]
    /\ current_file' = [current_file EXCEPT ![c] = None]
    /\ active' = 0

\* The coroutine goes on to the statement at `label`.
Goto(c, label) ==
    /\ pc' = [pc EXCEPT ![c] = label]
    /\ active' = c
    /\ UNCHANGED result

\* The frontend has the result of call d: the model keeps what a call
\* returned (or raised) until the next call starts, then drops its record.
Delivered(d) == pc[d] \in {"done", "raised"}

Drop(f, c, initial) ==
    [d \in Calls |-> IF d # c /\ Delivered(d) THEN initial ELSE f[d]]

\* As if only the host address were required.
Configured_IpOnly(s) == s.pc_ip # <<>>

\* main.py:229: if not pc_ip or not pc_user (negated)
Configured(s) == ~(s.pc_ip = <<>> \/ s.pc_user = <<>>)

\* main.py:224-230: the loop starts the coroutine (the oldest waiting call
\* first); the settings are checked.
Begin(c) ==
    /\ pc[c] = "pending"
    /\ \A d \in Calls : d < c => pc[d] # "pending"
    /\ LoopFree
    /\ LET configured == Configured(settings)
       IN  /\ pc' = [Drop(pc, c, "delivered") EXCEPT
                        ![c] = IF configured THEN "makedirs" ELSE "done"]
           /\ result' = [Drop(result, c, NoResult) EXCEPT
                        ![c] = IF configured
                               THEN @
                               ELSE [success |-> FALSE,
                                     error |-> <<"Configure PC connection first">>]]
           /\ active' = IF configured THEN c ELSE 0
    /\ req' = Drop(req, c, NoRequest)
    /\ files_synced' = Drop(files_synced, c, 0)
    /\ process' = Drop(process, c, NoProcess)
    /\ acf' = Drop(acf, c, NoAcf)
    /\ arrived_busy' = Drop(arrived_busy, c, FALSE)
    /\ seen' = Drop(seen, c, NoLines)
    /\ UNCHANGED <<sync_state, settings, current_file>>
    /\ status' = NoStatus

\* main.py:238: os.makedirs(local_common, exist_ok=True), outside the try:
\* an OSError leaves sync_game as an exception.
MakeDirs(c) ==
    /\ pc[c] = "makedirs"
    /\ MayRun(c)
    /\ \/ Goto(c, "reset")
       \/ /\ pc' = [pc EXCEPT ![c] = "raised"]
          /\ result' = [result EXCEPT ![c] = [exception |-> <<"OSError">>]]
          /\ active' = 0
    /\ UNCHANGED <<sync_state, settings, req, files_synced, current_file,
                   process, acf, arrived_busy, seen>>
    /\ status' = NoStatus

\* As if files_done were not reset.
Reset_KeepsCount(c) ==
    /\ pc[c] = "reset"
    /\ MayRun(c)
    /\ sync_state' = [sync_state EXCEPT !.syncing = TRUE,
                                        !.current_game = req[c].game_name,
                                        !.current_file = None,
                                        !.files_total = 0]
    /\ Goto(c, "popen")
    /\ UNCHANGED <<settings, req, files_synced, current_file, process, acf,
                   arrived_busy, seen>>
    /\ status' = NoStatus

\* main.py:241-245
Reset(c) ==
    /\ pc[c] = "reset"
    /\ MayRun(c)
    /\ sync_state' = [sync_state EXCEPT !.syncing = TRUE,
                                        !.current_game = req[c].game_name,
                                        !.current_file = None,
                                        !.files_done = 0,
                                        !.files_total = 0]
    /\ Goto(c, "popen")
    /\ UNCHANGED <<settings, req, files_synced, current_file, process, acf,
                   arrived_busy, seen>>
    /\ status' = NoStatus

\* As if the handler put the counter back to 0.
ExceptException_ClearsCount(c, e) ==
    /\ sync_state' = [sync_state EXCEPT !.syncing = FALSE, !.files_done = 0]
    /\ Return(c, [success |-> FALSE, error |-> e])

\* main.py:344-347: except Exception
ExceptException(c, e) ==
    /\ sync_state' = [sync_state EXCEPT !.syncing = FALSE]
    /\ Return(c, [success |-> FALSE, error |-> e])

\* As if the handler forgot to reset the flag.
ExceptTimeoutExpired_KeepsFlag(c) ==
    /\ UNCHANGED sync_state
    /\ Return(c, [success |-> FALSE, error |-> <<"Sync timeout">>])

\* main.py:341-343: except subprocess.TimeoutExpired
ExceptTimeoutExpired(c) ==
    /\ sync_state' = [sync_state EXCEPT !.syncing = FALSE]
    /\ Return(c, [success |-> FALSE, error |-> <<"Sync timeout">>])

\* main.py:266-275: Popen starts the content rsync, or raises OSError.
Popen(c) ==
    /\ pc[c] = "popen"
    /\ MayRun(c)
    /\ \/ /\ \E n \in 0..MaxLines :
                process' = [process EXCEPT ![c].state = "running",
                                           ![c].todo = n]
          /\ files_synced' = [files_synced EXCEPT ![c] = 0]
          /\ current_file' = [current_file EXCEPT ![c] = None]
          /\ Goto(c, "read")
          /\ UNCHANGED sync_state
       \/ /\ ExceptException(c, <<"OSError">>)
          /\ UNCHANGED <<process, files_synced>>
    /\ UNCHANGED <<settings, req, acf, arrived_busy, seen>>
    /\ status' = NoStatus

\* main.py:279-294: what one line read from stdout does to the locals
\* files_synced and current_file; `counted` says whether sync_state is
\* written too (main.py:291, 293).
ParseLine(files, file, raw) ==
    LET line == Strip(raw)
        parts == Split1(line)
    IN  IF CountsAsFile(line)
        THEN [files_synced |-> files + 1, current_file |-> parts[2],
              counted |-> TRUE]
        ELSE [files_synced |-> files, current_file |-> file,
              counted |-> FALSE]

\* main.py:278-299: the body of the output loop for one line of stdout.
ReadLine(c, raw) ==
    /\ pc[c] = "read"
    /\ MayRun(c)
    /\ process[c].state = "running"
    /\ process[c].todo > 0
    /\ process' = [process EXCEPT ![c].todo = @ - 1]
    /\ LET p == ParseLine(files_synced[c], current_file[c], raw)
       IN  /\ current_file' = [current_file EXCEPT ![c] = p.current_file]
           /\ files_synced' = [files_synced EXCEPT ![c] = p.files_synced]
           /\ sync_state' = IF p.counted
                            THEN [sync_state EXCEPT
                                    !.current_file = p.current_file,
                                    !.files_done = p.files_synced]
                            ELSE sync_state
    /\ seen' = [seen EXCEPT ![c] = Tally(@, raw)]
    /\ Goto(c, "read")
    /\ UNCHANGED <<settings, req, acf, arrived_busy>>
    /\ status' = NoStatus

\* main.py:278: reading stdout raises (text=True: undecodable bytes).
ReadRaises(c) ==
    /\ pc[c] = "read"
    /\ MayRun(c)
    /\ process[c].state = "running"
    /\ process[c].todo > 0
    /\ ExceptException(c, <<"UnicodeDecodeError">>)
    /\ UNCHANGED <<settings, req, files_synced, process, acf, arrived_busy, seen>>
    /\ status' = NoStatus

\* main.py:278: stdout is at end of file, the loop ends.
ReadEOF(c) ==
    /\ pc[c] = "read"
    /\ MayRun(c)
    /\ process[c].state = "exited"
    /\ Goto(c, "wait")
    /\ UNCHANGED <<sync_state, settings, req, files_synced, current_file,
                   process, acf, arrived_busy, seen>>
    /\ status' = NoStatus

\* main.py:302: process.wait(), no timeout
Wait(c) ==
    /\ pc[c] = "wait"
    /\ MayRun(c)
    /\ process[c].state = "exited"
    /\ Goto(c, "check")
    /\ UNCHANGED <<sync_state, settings, req, files_synced, current_file,
                   process, acf, arrived_busy, seen>>
    /\ status' = NoStatus

\* As if only exit status 1 counted as a failure.
ContentFailed_OnlyOne(returncode) == returncode = 1

\* main.py:304: if process.returncode != 0
ContentFailed(returncode) == returncode # 0

\* main.py:304-310
CheckReturnCode(c) ==
    /\ pc[c] = "check"
    /\ MayRun(c)
    /\ IF ContentFailed(process[c].returncode)
       THEN /\ sync_state' = [sync_state EXCEPT !.syncing = FALSE]
            /\ Return(c, [success |-> FALSE,
                          error |-> <<"rsync failed: ">> \o process[c].stderr])
       ELSE /\ Goto(c, "acf")
            /\ UNCHANGED <<sync_state, current_file>>
    /\ UNCHANGED <<settings, req, files_synced, process, acf, arrived_busy, seen>>
    /\ status' = NoStatus

\* f"appmanifest_{app_id}.acf"
AcfName(app_id) == <<"appmanifest_">> \o app_id \o <<".acf">>

\* As if the sentinel were not tested.
WantsAcf_NoSentinel(app_id) == app_id # <<>>

\* As if the emptiness of app_id were not tested.
WantsAcf_NoEmptyTest(app_id) == app_id # <<"unknown">>

\* main.py:313: if app_id and app_id != "unknown"
WantsAcf(app_id) == app_id # <<>> /\ app_id # <<"unknown">>

\* main.py:313-326
AcfBegin(c) ==
    /\ pc[c] = "acf"
    /\ MayRun(c)
    /\ IF WantsAcf(req[c].app_id)
       THEN /\ sync_state' = [sync_state EXCEPT
                                !.current_file = AcfName(req[c].app_id)]
            /\ Goto(c, "acf_run")
       ELSE /\ Goto(c, "finish")
            /\ UNCHANGED sync_state
    /\ UNCHANGED <<settings, req, files_synced, current_file, process, acf,
                   arrived_busy, seen>>
    /\ status' = NoStatus

\* What subprocess.run(rsync_acf_cmd, ..., timeout=60) can do (main.py:328):
\* return exit status 0, return another exit status, kill the child after
\* the timeout and raise TimeoutExpired, or raise OSError because the child
\* could not be started.
AcfOutcomes == {"exit0", "exitN", "killed", "nolaunch"}

\* As if subprocess.run were called with check=True.
AcfReturns_Check == {"exit0"}

\* The outcomes with which subprocess.run returns a CompletedProcess: it is
\* called without check=True, so a non-zero exit status does not raise.
AcfReturns == {"exit0", "exitN"}

\* main.py:328-334
AcfRun(c, outcome) ==
    /\ pc[c] = "acf_run"
    /\ MayRun(c)
    /\ acf' = [acf EXCEPT ![c] =
                 [runs |-> IF outcome = "nolaunch" THEN @.runs ELSE @.runs + 1,
                  outcome |-> outcome,
                  warned |-> outcome = "exitN" /\ outcome \in AcfReturns]]
    /\ CASE outcome \in AcfReturns ->
                /\ Goto(c, "finish")
                /\ UNCHANGED <<sync_state, current_file>>
         [] outcome = "killed" -> ExceptTimeoutExpired(c)
         [] outcome = "nolaunch" -> ExceptException(c, <<"OSError">>)
         [] OTHER -> ExceptException(c, <<"CalledProcessError">>)
    /\ UNCHANGED <<settings, req, files_synced, process, arrived_busy, seen>>
    /\ status' = NoStatus

\* main.py:336-339
Finish(c) ==
    /\ pc[c] = "finish"
    /\ MayRun(c)
    /\ sync_state' = [sync_state EXCEPT !.syncing = FALSE,
                                        !.current_file = None]
    /\ Return(c, [success |-> TRUE,
                  message |-> <<"Synced ">> \o req[c].game_name \o <<" (">>
                              \o Str(files_synced[c]) \o <<" files)">>])
    /\ UNCHANGED <<settings, req, files_synced, process, acf, arrived_busy, seen>>
    /\ status' = NoStatus

\* ------------------------------------------------------- the content rsync
\* process[c].todo is the number of lines the child still writes to stdout
\* (Popen draws it); process.stdout yields them one by one.  Having written
\* them the child exits with a status and what it wrote to stderr, and its
\* stdout reaches end of file.  (The stderr of a child that exits with
\* status 0 is never read: it is drawn empty.)
ProcessExits(c, returncode, stderr) ==
    /\ process[c].state = "running"
    /\ process[c].todo = 0
    /\ returncode = 0 => stderr = <<>>
    /\ process' = [process EXCEPT ![c].state = "exited",
                                  ![c].returncode = returncode,
                                  ![c].stderr = stderr]
    /\ UNCHANGED <<sync_state, settings, pc, req, files_synced, current_file,
                   acf, result, active, arrived_busy, seen>>
    /\ status' = NoStatus

\* The child stalls for good (a dead connection): it writes nothing more and
\* never exits.
ProcessHangs(c) ==
    /\ process[c].state = "running"
    /\ process' = [process EXCEPT ![c].state = "hung"]
    /\ UNCHANGED <<sync_state, settings, pc, req, files_synced, current_file,
                   acf, result, active, arrived_busy, seen>>
    /\ status' = NoStatus

\* ------------------------------------------------------------ specification
SyncGameStep(c) ==
    \/ Begin(c)
    \/ MakeDirs(c)
    \/ Reset(c)
    \/ Popen(c)
    \/ \E raw \in OutputLines : ReadLine(c, raw)
    \/ ReadRaises(c)
    \/ ReadEOF(c)
    \/ Wait(c)
    \/ CheckReturnCode(c)
    \/ AcfBegin(c)
    \/ \E outcome \in AcfOutcomes : AcfRun(c, outcome)
    \/ Finish(c)

Next ==
    \/ \E c \in Calls, g \in Games, a \in AppIds : CallSyncGame(c, g, a)
    \/ \E ip \in SettingValues, user \in SettingValues : save_settings(ip, user)
    \/ get_sync_status
    \/ \E c \in Calls : SyncGameStep(c)
    \/ \E c \in Calls, rc \in ExitCodes, err \in StderrTexts :
          ProcessExits(c, rc, err)
    \/ \E c \in Calls : ProcessHangs(c)

Spec == Init /\ [][Next]_vars

\* =================================================================== claims
Returned(c) == pc[c] = "done"

\* The content rsync of call c exited and sync_game saw its exit status.
ContentExited(c) == Returned(c) /\ process[c].state = "exited"

NoSyncInFlight == \A c \in Calls : pc[c] \notin InFlight

\* C1: a sync_game call issued while sync_state.syncing is true is rejected
\* with an error result and is neither queued nor run: it never gets past
\* the entry of sync_game, and what it returns is a failure.
C1_BusyCallRejected ==
    \A c \in Calls :
        arrived_busy[c] =>
            /\ pc[c] \in {"pending", "done"}
            /\ Returned(c) => /\ result[c].success = FALSE
                              /\ process[c].state = "none"

\* C2: at most one sync_game call is between its state reset and its
\* return.
C2_SingleFlight ==
    Cardinality({c \in Calls : pc[c] \in InFlight}) <= 1

\* A second call was issued during a sync and is kept waiting by the loop.
C2_Witness ==
    \E c, d \in Calls :
        /\ pc[c] = "read" /\ sync_state.files_done > 0
        /\ pc[d] = "pending" /\ arrived_busy[d]

\* C3: when the content rsync exits with a non-zero status, sync_game
\* returns success = false with an error that carries the child's stderr,
\* it has run no metadata rsync, and syncing is false when it returns.
C3_ContentFailure ==
    /\ [](\A c \in Calls :
            ContentExited(c) /\ process[c].returncode # 0 =>
                /\ result[c].success = FALSE
                /\ result[c].error = <<"rsync failed: ">> \o process[c].stderr
                /\ acf[c].runs = 0
                /\ acf[c].outcome = "none")
    /\ [][\A c \in Calls :
            pc[c] = "check" /\ process[c].returncode # 0 /\ pc'[c] # "check" =>
                /\ pc'[c] = "done"
                /\ sync_state'.syncing = FALSE]_vars

C3_Witness ==
    \E c \in Calls :
        /\ ContentExited(c)
        /\ process[c].returncode = 23
        /\ process[c].stderr # <<>>
        /\ files_synced[c] > 0
        /\ WantsAcf(req[c].app_id)

\* C4: when the content rsync exits 0 and the metadata rsync exits non-zero,
\* sync_game returns success = true, its result names the number of files
\* transferred and has no error field, and the metadata failure is logged
\* as a warning.
C4_AcfFailureSwallowed ==
    \A c \in Calls :
        ContentExited(c) /\ process[c].returncode = 0
                         /\ acf[c].outcome = "exitN" =>
            /\ result[c].success = TRUE
            /\ "error" \notin DOMAIN result[c]
            /\ result[c].message = <<"Synced ">> \o req[c].game_name
                   \o <<" (">> \o Str(files_synced[c]) \o <<" files)">>
            /\ acf[c].warned

C4_Witness ==
    \E c \in Calls :
        /\ ContentExited(c) /\ process[c].returncode = 0
        /\ acf[c].outcome = "exitN"
        /\ files_synced[c] = 2

\* C5: given a content rsync that exited 0, sync_game reports success =
\* true whatever the metadata rsync does (exit 0, non-zero exit, timeout,
\* failure to start).
C5_AcfNeverFatal ==
    \A c \in Calls :
        ContentExited(c) /\ process[c].returncode = 0 =>
            result[c].success = TRUE

\* C6: a sync_game whose rsync child never exits is not stuck: the child is
\* killed when its time is up and sync_game goes on to return a timeout
\* failure, so a call that waits for a stalled child can always take a step.
C6_StalledChildTimesOut ==
    \A c \in Calls :
        pc[c] \in InFlight /\ process[c].state = "hung" =>
            ENABLED SyncGameStep(c)

\* C7: syncing is true exactly while a sync_game call is between its state
\* reset and its return; so it is false initially and after every return.
C7_SyncingIffInFlight ==
    sync_state.syncing <=> (\E c \in Calls : pc[c] \in InFlight)

\* A call has returned through the timeout handler.
C7_Witness ==
    \E c \in Calls :
        /\ Returned(c)
        /\ acf[c].outcome = "killed"
        /\ result[c].error = <<"Sync timeout">>
        /\ ~sync_state.syncing

\* C8: whenever sync_game has returned, by any path, current_file is null:
\* with no sync in flight sync_state.current_file is None.
C8_CurrentFileCleared ==
    NoSyncInFlight => sync_state.current_file = None

\* C9: whenever syncing is false, current_game is null.
C9_IdleGameNull ==
    ~sync_state.syncing => sync_state.current_game = None

\* C10: a sync_game called with app_id "unknown" never runs a metadata
\* rsync, and returns success = true whenever its content rsync exited 0.
C10_UnknownAppId ==
    \A c \in Calls :
        req[c].app_id = <<"unknown">> =>
            /\ acf[c].runs = 0
            /\ acf[c].outcome = "none"
            /\ pc[c] # "acf_run"
            /\ ContentExited(c) /\ process[c].returncode = 0 =>
                   result[c].success = TRUE

C10_Witness ==
    \E c \in Calls :
        /\ req[c].app_id = <<"unknown">>
        /\ ContentExited(c) /\ process[c].returncode = 0
        /\ result[c].success = TRUE
        /\ files_synced[c] > 0

\* C11: a sync_game call made while pc_ip or pc_user is absent returns a
\* failure at once: no rsync is started and sync_state is left as it was.
C11_UnconfiguredRejected ==
    [][\A c \in Calls :
          /\ pc[c] = "pending" /\ pc'[c] # "pending"
          /\ settings.pc_ip = <<>> \/ settings.pc_user = <<>>
          => /\ pc'[c] = "done"
             /\ result'[c].success = FALSE
             /\ result'[c].error = <<"Configure PC connection first">>
             /\ sync_state' = sync_state
             /\ process'[c] = NoProcess
             /\ acf'[c] = NoAcf]_vars

\* A call was refused for a missing user name, after an earlier sync had
\* left its values in sync_state.
C11_Witness ==
    \E c \in Calls :
        /\ Returned(c)
        /\ "error" \in DOMAIN result[c]
        /\ result[c].error = <<"Configure PC connection first">>
        /\ settings.pc_ip # <<>>
        /\ sync_state.files_done > 0

\* C12: a status query is never blocked by a sync in flight: while
\* sync_game is between two output lines, or waits for the child to exit,
\* get_sync_status can run.
C12_StatusNeverBlocked ==
    \A c \in Calls : pc[c] \in {"read", "wait"} => ENABLED get_sync_status

C14_NoExceptionEscapes ==
    \A c \in Calls : pc[c] # "raised"

\* C15 (as stated): during and after the output loop files_done is the
\* number of lines read whose prefix is a file-transferred code.
C15_CountsPrefixLines ==
    \A c \in Calls :
        pc[c] \in {"read", "wait", "check"} =>
            sync_state.files_done = seen[c].prefix

\* C15 (amended): files_done is the number of FileTransferred lines read:
\* those that, surrounding whitespace removed, begin with a file code and
\* have a space after their first token.  Each delivery of a line counts.
C15_CountsFileTransferred ==
    \A c \in Calls :
        pc[c] \in {"read", "wait", "check"} =>
            sync_state.files_done = seen[c].files

\* One FileTransferred line and one file-code line without separator.
C15_Witness ==
    \E c \in Calls :
        /\ pc[c] = "wait"
        /\ seen[c].files = 1
        /\ seen[c].prefix = 2

\* C16: reading a malformed line (file or directory code, no separator)
\* changes neither files_done nor current_file, and the loop goes on.
C16_MalformedIgnored ==
    [][\A c \in Calls, raw \in OutputLines :
          IsMalformed(raw) /\ pc[c] = "read" /\ ReadLine(c, raw) =>
              /\ sync_state'.files_done = sync_state.files_done
              /\ sync_state'.current_file = sync_state.current_file
              /\ pc'[c] = "read"
              /\ sync_state'.syncing]_vars

\* A file-code line without separator has been read and nothing counted.
C16_Witness ==
    \E c \in Calls :
        /\ pc[c] = "read"
        /\ seen[c].prefix = 1 /\ seen[c].files = 0
        /\ sync_state.files_done = 0
        /\ sync_state.current_file = None

ExampleLines ==
    << <<">", "f", "+", "+", "+", "+", "+", "+", "+", "+", "+", " ", "d", "a", "t", "a", "/", "a", ".", "b", "i", "n">>,
       <<"c", "d", "+", "+", "+", "+", "+", "+", "+", "+", "+", " ", "d", "a", "t", "a", "/">>,
       <<">", "f", "+", "+", "+", "+", "+", "+", "+", "+", "+", " ", "d", "a", "t", "a", "/", "b", ".", "b", "i", "n">>,
       <<>> >>

\* The output loop run over a whole list of lines.
RECURSIVE ParseAll(_, _, _)
ParseAll(files, file, lines) ==
    IF lines = <<>>
    THEN [files_done |-> files, current_file |-> file]
    ELSE LET p == ParseLine(files, file, Head(lines))
         IN  ParseAll(p.files_synced, p.current_file, Tail(lines))

\* C17: in the content phase current_file is None until a FileTransferred
\* line is read; reading one sets current_file to the remainder of the line
\* after its first token and adds 1 to files_done; reading any other line
\* changes neither.  The lines of the example give files_done = 2 and
\* current_file = "data/b.bin".
C17_CurrentFileFollowsLines ==
    /\ [](/\ \A c \in Calls :
               pc[c] \in {"read", "wait", "check"} /\ seen[c].files = 0 =>
                   sync_state.current_file = None
          /\ ParseAll(0, None, ExampleLines) =
                 [files_done |-> 2, current_file |-> <<"d", "a", "t", "a", "/", "b", ".", "b", "i", "n">>])
    /\ [][\A c \in Calls, raw \in OutputLines :
            pc[c] = "read" /\ ReadLine(c, raw) =>
                IF IsFileTransferred(raw)
                THEN /\ sync_state'.current_file = PathAfterToken(Strip(raw))
                     /\ sync_state'.files_done = sync_state.files_done + 1
                ELSE /\ sync_state'.current_file = sync_state.current_file
                     /\ sync_state'.files_done = sync_state.files_done]_vars

\* Two files read, the second with a space in its path.
C17_Witness ==
    \E c \in Calls :
        /\ pc[c] = "read"
        /\ sync_state.files_done = 2
        /\ sync_state.current_file = <<"a", " ", "c">>

\* C18: the step that starts a sync sets files_done to 0; every other step
\* leaves files_done unchanged or adds exactly 1 to it.
C18_FilesDoneMonotone ==
    [][/\ \A c \in Calls :
            pc[c] = "reset" /\ pc'[c] = "popen" => sync_state'.files_done = 0
       /\ \/ \E c \in Calls : pc[c] = "reset" /\ pc'[c] = "popen"
          \/ sync_state'.files_done = sync_state.files_done
          \/ sync_state'.files_done = sync_state.files_done + 1]_vars

\* A sync that counted two files has ended in a failure.
C18_Witness ==
    \E c \in Calls :
        /\ Returned(c)
        /\ result[c].success = FALSE
        /\ sync_state.files_done = 2

\* C19 (as stated): a call whose content rsync exited 0 and whose app_id is
\* any string other than "unknown" has run the metadata rsync.
C19_AnyOtherAppId ==
    \A c \in Calls :
        ContentExited(c) /\ process[c].returncode = 0
                         /\ req[c].app_id # <<"unknown">> =>
            acf[c].outcome # "none"

\* The app_id names a manifest: it is neither empty nor "unknown".
NamesManifest(app_id) == app_id \notin {<<>>, <<"unknown">>}

\* C19 (amended): the metadata rsync is invoked exactly once by a call
\* whose content rsync exited 0 and whose app_id is a non-empty string
\* other than "unknown", after the content child has exited and all its
\* lines were read, and never by any other call; files_done changes only
\* at the start of a sync and while the content child runs.
C19_AcfOnceAfterContent ==
    /\ [](\A c \in Calls :
            /\ acf[c].runs <= 1
            /\ pc[c] = "acf_run" \/ acf[c].outcome # "none" =>
                  /\ process[c].state = "exited"
                  /\ process[c].returncode = 0
                  /\ process[c].todo = 0
                  /\ NamesManifest(req[c].app_id)
            /\ ContentExited(c) /\ process[c].returncode = 0
                                /\ NamesManifest(req[c].app_id) =>
                  /\ acf[c].outcome # "none"
                  /\ acf[c].outcome # "nolaunch" => acf[c].runs = 1)
    /\ [][sync_state'.files_done # sync_state.files_done =>
            \E c \in Calls :
                \/ pc[c] = "reset"
                \/ pc[c] = "read" /\ process[c].state = "running"]_vars

\* A call with an empty app_id has synced its content and run no metadata
\* rsync.
C19_Witness ==
    \E c \in Calls :
        /\ ContentExited(c) /\ process[c].returncode = 0
        /\ req[c].app_id = <<>>
        /\ acf[c].outcome = "none"
        /\ result[c].success = TRUE

\* C20: from the state reset on, the local counter files_synced of the call
\* in flight equals sync_state.files_done; so the count in the message of a
\* successful result is the files_done that get_sync_status reports after
\* the return.
C20_CountersInLockstep ==
    \A c \in Calls :
        /\ pc[c] \in InFlight => files_synced[c] = sync_state.files_done
        /\ Returned(c) /\ result[c].success = TRUE =>
              /\ result[c].message = <<"Synced ">> \o req[c].game_name
                     \o <<" (">> \o Str(sync_state.files_done)
                     \o <<" files)">>
              /\ "syncing" \in DOMAIN status =>
                     status.files_done = sync_state.files_done

C20_Witness ==
    \E c \in Calls :
        /\ Returned(c) /\ result[c].success = TRUE
        /\ "syncing" \in DOMAIN status
        /\ status.files_done = 2

====
